---------------------------- MODULE Spec2Model ----------------------------
(***************************************************************************)
(* A model of peppol_lookup.py: the SML lookup (sml_lookup), the SMP       *)
(* lookup (smp_lookup) and the caller that composes them (main).           *)
(*                                                                         *)
(* Text is a sequence of one-character strings.  Only printable ASCII is   *)
(* used, so the UTF-8 bytes of a text are the codes of its characters.     *)
(***************************************************************************)
EXTENDS Integers, Sequences, FiniteSets, TLC

(***************************************************************************)
(* Text helpers.                                                           *)
(***************************************************************************)
ASCII ==
  <<" ", "!", "\"", "#", "$", "%", "&", "'", "(", ")", "*", "+", ",", "-",
    ".", "/", "0", "1", "2", "3", "4", "5", "6", "7", "8", "9", ":", ";",
    "<", "=", ">", "?", "@", "A", "B", "C", "D", "E", "F", "G", "H", "I",
    "J", "K", "L", "M", "N", "O", "P", "Q", "R", "S", "T", "U", "V", "W",
    "X", "Y", "Z", "[", "\\", "]", "^", "_", "GRAVE", "a", "b", "c", "d", "e",
    "f", "g", "h", "i", "j", "k", "l", "m", "n", "o", "p", "q", "r", "s",
    "t", "u", "v", "w", "x", "y", "z", "{", "|", "}", "~">>

\* str.encode(): the byte of a printable ASCII character ("GRAVE" stands
\* for the grave accent, code 96).
Ord(c) == 31 + (CHOOSE i \in 1..Len(ASCII) : ASCII[i] = c)

Chr(n) == ASCII[n - 31]

HexDigits ==
  <<"0", "1", "2", "3", "4", "5", "6", "7", "8", "9", "a", "b", "c", "d",
    "e", "f">>

UpperHexDigits ==
  <<"0", "1", "2", "3", "4", "5", "6", "7", "8", "9", "A", "B", "C", "D",
    "E", "F">>

\* The text s from position i to its end (s[i-1:] in Python terms).
From(s, i) == SubSeq(s, i, Len(s))

\* needle occurs in s at position i.
OccursAt(s, needle, i) ==
  /\ i >= 1
  /\ i + Len(needle) - 1 <= Len(s)
  /\ SubSeq(s, i, i + Len(needle) - 1) = needle

\* `needle in s`
Contains(s, needle) == \E i \in 1..(Len(s) + 1) : OccursAt(s, needle, i)

\* The least position at which needle occurs in s, 0 when there is none.
Find(s, needle) ==
  IF Contains(s, needle)
  THEN CHOOSE i \in 1..(Len(s) + 1) :
         /\ OccursAt(s, needle, i)
         /\ \A j \in 1..(i - 1) : ~OccursAt(s, needle, j)
  ELSE 0

\* str.split(sep): the pieces between the occurrences of sep, found left
\* to right without overlap.
RECURSIVE Split(_, _)
Split(s, sep) ==
  LET i == Find(s, sep)
  IN  IF i = 0
      THEN <<s>>
      ELSE <<SubSeq(s, 1, i - 1)>> \o Split(From(s, i + Len(sep)), sep)

(***************************************************************************)
(* hashlib.md5: RFC 1321 on 32-bit words, a word kept as <<high 16 bits,   *)
(* low 16 bits>>.                                                          *)
(***************************************************************************)
\* The powers of two 2^0 .. 2^16.
Pow2 ==
  <<1, 2, 4, 8, 16, 32, 64, 128, 256, 512, 1024, 2048, 4096, 8192, 16384,
    32768, 65536>>

\* The bit operations on 4-bit values, as tables.
Bit(a, k) == (a \div Pow2[k + 1]) % 2

NibAnd ==
  [a \in 0..15 |-> [b \in 0..15 |->
     Bit(a, 0) * Bit(b, 0) + 2 * (Bit(a, 1) * Bit(b, 1))
       + 4 * (Bit(a, 2) * Bit(b, 2)) + 8 * (Bit(a, 3) * Bit(b, 3))]]

NibXor ==
  [a \in 0..15 |-> [b \in 0..15 |->
     ((Bit(a, 0) + Bit(b, 0)) % 2) + 2 * ((Bit(a, 1) + Bit(b, 1)) % 2)
       + 4 * ((Bit(a, 2) + Bit(b, 2)) % 2) + 8 * ((Bit(a, 3) + Bit(b, 3)) % 2)]]

NibOr == [a \in 0..15 |-> [b \in 0..15 |-> a + b - NibAnd[a][b]]]

\* A 4-bit table applied to the four 4-bit digits of two 16-bit values.
Bits16(T, a, b) ==
  4096 * T[a \div 4096][b \div 4096]
    + 256 * T[(a \div 256) % 16][(b \div 256) % 16]
    + 16 * T[(a \div 16) % 16][(b \div 16) % 16]
    + T[a % 16][b % 16]

BitAnd(a, b) == Bits16(NibAnd, a, b)
BitOr(a, b)  == Bits16(NibOr, a, b)
BitXor(a, b) == Bits16(NibXor, a, b)

WAnd(x, y) == <<BitAnd(x[1], y[1]), BitAnd(x[2], y[2])>>
WOr(x, y)  == <<BitOr(x[1], y[1]), BitOr(x[2], y[2])>>
WXor(x, y) == <<BitXor(x[1], y[1]), BitXor(x[2], y[2])>>
WNot(x)    == <<65535 - x[1], 65535 - x[2]>>

\* Addition modulo 2^32.
WAdd(x, y) ==
  LET lo == x[2] + y[2]
      hi == x[1] + y[1] + (lo \div 65536)
  IN  <<hi % 65536, lo % 65536>>


\* Rotation to the left by n bits, 0 <= n < 32.
WRotl(x, n) ==
  LET y == IF n >= 16 THEN <<x[2], x[1]>> ELSE x
      k == n % 16
      p == Pow2[k + 1]
      q == Pow2[17 - k]
  IN  IF k = 0 THEN y
      ELSE << ((y[1] * p) % 65536) + (y[2] \div q),
              ((y[2] * p) % 65536) + (y[1] \div q) >>

MD5K ==
  << <<55146, 42104>>, <<59591, 46934>>, <<9248, 28891>>, <<49597, 52974>>,
     <<62844, 4015>>, <<18311, 50730>>, <<43056, 17939>>, <<64838, 38145>>,
     <<27008, 39128>>, <<35652, 63407>>, <<65535, 23473>>, <<35164, 55230>>,
     <<27536, 4386>>, <<64920, 29075>>, <<42617, 17294>>, <<18868, 2081>>,
     <<63006, 9570>>, <<49216, 45888>>, <<9822, 23121>>, <<59830, 51114>>,
     <<54831, 4189>>, <<580, 5203>>, <<55457, 59009>>, <<59347, 64456>>,
     <<8673, 52710>>, <<49975, 2006>>, <<62677, 3463>>, <<17754, 5357>>,
     <<43491, 59653>>, <<64751, 41976>>, <<26479, 729>>, <<36138, 19594>>,
     <<65530, 14658>>, <<34673, 63105>>, <<28061, 24866>>, <<64997, 14348>>,
     <<42174, 59972>>, <<19422, 53161>>, <<63163, 19296>>, <<48831, 48240>>,
     <<10395, 32454>>, <<60065, 10234>>, <<54511, 12421>>, <<1160, 7429>>,
     <<55764, 53305>>, <<59099, 39397>>, <<8098, 31992>>, <<50348, 22117>>,
     <<62505, 8772>>, <<17194, 65431>>, <<43924, 9127>>, <<64659, 41017>>,
     <<25947, 22979>>, <<36620, 52370>>, <<65519, 62589>>, <<34180, 24017>>,
     <<28584, 32335>>, <<65068, 59104>>, <<41729, 17172>>, <<19976, 4513>>,
     <<63315, 32386>>, <<48442, 62005>>, <<10967, 53947>>, <<60294, 54161>> >>

MD5Shift ==
  <<7, 12, 17, 22, 7, 12, 17, 22, 7, 12, 17, 22, 7, 12, 17, 22,
    5, 9, 14, 20, 5, 9, 14, 20, 5, 9, 14, 20, 5, 9, 14, 20,
    4, 11, 16, 23, 4, 11, 16, 23, 4, 11, 16, 23, 4, 11, 16, 23,
    6, 10, 15, 21, 6, 10, 15, 21, 6, 10, 15, 21, 6, 10, 15, 21>>

MD5Start ==
  << <<26437, 8961>>, <<61389, 43913>>, <<39098, 56574>>, <<4146, 21622>> >>

\* The message bytes, then 0x80, zeros up to 56 modulo 64, and the bit
\* length as 8 little-endian bytes (lengths below 8192 bytes).
MD5Pad(bytes) ==
  LET n     == Len(bytes)
      zeros == (119 - n) % 64
      bits  == 8 * n
  IN  bytes \o <<128>> \o [i \in 1..zeros |-> 0]
        \o <<bits % 256, bits \div 256, 0, 0, 0, 0, 0, 0>>

\* Word j (0..15) of the 64-byte block that starts after `off` bytes.
MD5Word(padded, off, j) ==
  LET b == off + 4 * j
  IN  <<padded[b + 3] + 256 * padded[b + 4], padded[b + 1] + 256 * padded[b + 2]>>

\* Step i (0..63) on the state st = <<A, B, C, D>> with the block words m.
MD5Step(st, m, i) ==
  LET A == st[1]
      B == st[2]
      C == st[3]
      D == st[4]
      f == IF i < 16 THEN WOr(WAnd(B, C), WAnd(WNot(B), D))
           ELSE IF i < 32 THEN WOr(WAnd(D, B), WAnd(WNot(D), C))
           ELSE IF i < 48 THEN WXor(B, WXor(C, D))
           ELSE WXor(C, WOr(B, WNot(D)))
      g == IF i < 16 THEN i
           ELSE IF i < 32 THEN (5 * i + 1) % 16
           ELSE IF i < 48 THEN (3 * i + 5) % 16
           ELSE (7 * i) % 16
      t == WAdd(WAdd(f, A), WAdd(MD5K[i + 1], m[g + 1]))
  IN  <<D, WAdd(B, WRotl(t, MD5Shift[i + 1])), B, C>>

\* Steps lo .. hi-1, lo < hi.  (The range is halved, and the state after the
\* first half is bound through a singleton set, so that TLC computes it
\* before the second half: this keeps the evaluation shallow.)
RECURSIVE MD5Steps(_, _, _, _)
MD5Steps(st, m, lo, hi) ==
  IF hi = lo + 1 THEN MD5Step(st, m, lo)
  ELSE LET mid == (lo + hi) \div 2
       IN  CHOOSE r \in {MD5Steps(n, m, mid, hi) :
                           n \in {MD5Steps(st, m, lo, mid)}} : TRUE

\* One 64-byte block, given as its 16 words, added into the state.
MD5Block(st, m) ==
  LET r == MD5Steps(st, m, 0, 64)
  IN  [k \in 1..4 |-> WAdd(st[k], r[k])]

\* The blocks from offset `off` on.
RECURSIVE MD5Blocks(_, _, _)
MD5Blocks(st, padded, off) ==
  IF off >= Len(padded) THEN st
  ELSE CHOOSE d \in {MD5Blocks(n, padded, off + 64) :
           n \in {MD5Block(st, m) :
                    m \in {[j \in 1..16 |-> MD5Word(padded, off, j - 1)]}}} : TRUE

HexByte(b) == <<HexDigits[(b \div 16) + 1], HexDigits[(b % 16) + 1]>>

\* The bytes of a word, least significant first, in lowercase hexadecimal.
HexWord(w) ==
  HexByte(w[2] % 256) \o HexByte(w[2] \div 256)
    \o HexByte(w[1] % 256) \o HexByte(w[1] \div 256)

\* hashlib.md5(text.encode()).hexdigest(), computed.
MD5Compute(text) ==
  LET bytes == IF text = <<>> THEN <<>>
               ELSE [i \in 1..Len(text) |-> Ord(text[i])]
  IN  CHOOSE d \in {HexWord(r[1]) \o HexWord(r[2]) \o HexWord(r[3]) \o HexWord(r[4]) :
           r \in {MD5Blocks(MD5Start, padded, 0) : padded \in {MD5Pad(bytes)}}} : TRUE

(***************************************************************************)
(* The texts of the program, and the inputs of the model.                  *)
(***************************************************************************)
\* The DNS zone label of the participant scheme (f-string of line 45).
SmlZone ==
  <<"i", "s", "o", "6", "5", "2", "3", "-", "a", "c", "t", "o", "r", "i",
    "d", "-", "u", "p", "i", "s">>

\* The default of sml_lookup's parameter sml_domain.
DefaultSmlDomain ==
  <<"e", "d", "e", "l", "i", "v", "e", "r", "y", ".", "t", "e", "c", "h",
    ".", "e", "c", ".", "e", "u", "r", "o", "p", "a", ".", "e", "u">>

\* Another SML domain a caller may pass (the acceptance network's).
AccSmlDomain ==
  <<"a", "c", "c", ".", "e", "d", "e", "l", "i", "v", "e", "r", "y", ".",
    "t", "e", "c", "h", ".", "e", "c", ".", "e", "u", "r", "o", "p", "a",
    ".", "e", "u">>

\* main's icd.
MainIcd ==
  <<"0", "1", "9", "2">>

\* main's identifier.
MainIdentifier ==
  <<"9", "2", "1", "6", "0", "5", "9", "0", "0">>

\* A second participant, for callers other than main.
OtherIcd ==
  <<"0", "0", "8", "8">>

OtherIdentifier ==
  <<"7", "3", "0", "0", "0", "1", "0", "0", "0", "0", "0", "0", "1">>

\* The pieces of the f-string of line 66.
UrlScheme ==
  <<"h", "t", "t", "p", ":", "/", "/">>

UrlPath ==
  <<"/", "i", "s", "o", "6", "5", "2", "3", "-", "a", "c", "t", "o", "r",
    "i", "d", "-", "u", "p", "i", "s", ":", ":">>

\* The marker smp_lookup looks for in a decoded href.
Marker ==
  <<"b", "u", "s", "d", "o", "x", "-", "d", "o", "c", "i", "d", "-", "q",
    "n", "s", ":", ":">>

\* The arguments of one call: (icd, identifier, sml_domain).
Arg(i, v, d) == [icd |-> i, identifier |-> v, sml_domain |-> d]

\* What main passes: its two constants and sml_domain's default.
MainArgs == Arg(MainIcd, MainIdentifier, DefaultSmlDomain)

Participants == {<<MainIcd, MainIdentifier>>, <<OtherIcd, OtherIdentifier>>}

Inputs ==
  {Arg(q[1], q[2], d) : q \in Participants, d \in {DefaultSmlDomain, AccSmlDomain}}

\* f"{icd}:{identifier}"
ParticipantId(i, v) == i \o <<":">> \o v

\* hashlib.md5 on the participant ids of the model, computed once.
MD5Memo ==
  [k \in {ParticipantId(q[1], q[2]) : q \in Participants} |-> MD5Compute(k)]

\* hashlib.md5(text.encode()).hexdigest()
MD5Hex(text) ==
  IF text \in DOMAIN MD5Memo THEN MD5Memo[text] ELSE MD5Compute(text)

(***************************************************************************)
(* sml_lookup, lines 44-45: the host name of a participant.                *)
(***************************************************************************)
\* The same with the hash of icd and identifier put together without the ":".
HostnameNoSeparator(i, v, d) ==
  <<"b", "-">> \o MD5Hex(i \o v) \o <<".">> \o SmlZone \o <<".">> \o d

Hostname(i, v, d) ==
  <<"b", "-">> \o MD5Hex(ParticipantId(i, v)) \o <<".">> \o SmlZone \o <<".">> \o d

(***************************************************************************)
(* urllib.parse.quote and unquote, on printable ASCII.                     *)
(***************************************************************************)
\* The characters quote() leaves alone: letters, digits, "_.-~" and its
\* default safe="/".
QuoteSafe ==
  {"A", "B", "C", "D", "E", "F", "G", "H", "I", "J", "K", "L", "M", "N", "O",
   "P", "Q", "R", "S", "T", "U", "V", "W", "X", "Y", "Z", "a", "b", "c", "d",
   "e", "f", "g", "h", "i", "j", "k", "l", "m", "n", "o", "p", "q", "r", "s",
   "t", "u", "v", "w", "x", "y", "z", "0", "1", "2", "3", "4", "5", "6", "7",
   "8", "9", "_", ".", "-", "~", "/"}

QuoteChar(c) ==
  IF c \in QuoteSafe THEN <<c>>
  ELSE <<"%", UpperHexDigits[(Ord(c) \div 16) + 1], UpperHexDigits[(Ord(c) % 16) + 1]>>

\* The concatenation of the texts of a sequence of texts.
RECURSIVE Concat(_)
Concat(ts) == IF ts = <<>> THEN <<>> ELSE Head(ts) \o Concat(Tail(ts))

Quote(s) == Concat([k \in 1..Len(s) |-> QuoteChar(s[k])])

IsHexDigit(c) ==
  \E k \in 1..16 : c = HexDigits[k] \/ c = UpperHexDigits[k]

HexValue(c) ==
  (CHOOSE k \in 1..16 : c = HexDigits[k] \/ c = UpperHexDigits[k]) - 1

\* unquote() on one piece that followed a "%": two hexadecimal digits become
\* the character they encode, anything else keeps its "%".  (Escapes of
\* printable ASCII only: the hrefs of the model hold no others.)
UnquotePiece(piece) ==
  IF /\ Len(piece) >= 2
     /\ IsHexDigit(piece[1])
     /\ IsHexDigit(piece[2])
     /\ 16 * HexValue(piece[1]) + HexValue(piece[2]) \in 32..126
  THEN <<Chr(16 * HexValue(piece[1]) + HexValue(piece[2]))>> \o From(piece, 3)
  ELSE <<"%">> \o piece

\* urllib.parse.unquote: the text is split at "%", as unquote_to_bytes does.
Unquote(s) ==
  LET bits == Split(s, <<"%">>)
  IN  Head(bits) \o Concat([k \in 1..(Len(bits) - 1) |-> UnquotePiece(bits[k + 1])])

\* The URL with the participant id as it is, not percent-encoded.
UrlUnquoted(h, i, v) == UrlScheme \o h \o UrlPath \o ParticipantId(i, v)

\* smp_lookup, lines 65-66.
Url(h, i, v) == UrlScheme \o h \o UrlPath \o Quote(ParticipantId(i, v))

(***************************************************************************)
(* smp_lookup, lines 84-95: the search of the parsed document and the      *)
(* extraction of the document types.                                       *)
(*                                                                         *)
(* A parsed element is [tag, attrs, children]: tag is [ns, name], attrs a  *)
(* function from attribute names to texts, children a sequence of          *)
(* elements.                                                               *)
(***************************************************************************)
El(tg, at, ch) == [tag |-> tg, attrs |-> at, children |-> ch]

\* The namespace map of line 81.
BusdoxNS == "http://busdox.org/serviceMetadata/publishing/1.0/"

RefTag == [ns |-> BusdoxNS, name |-> "ServiceMetadataReference"]

\* The descendants of an element, in document order (the element itself is
\* not among them).
RECURSIVE Descendants(_)
Descendants(e) ==
  Concat([k \in 1..Len(e.children) |->
            <<e.children[k]>> \o Descendants(e.children[k])])

\* The path step "ns3:ServiceMetadataReference": the tag in the namespace.
IsRef(e) == e.tag = RefTag

\* root.findall('.//ns3:ServiceMetadataReference', ns), line 84: ".//" selects
\* among the descendants of the element it is applied to.
FindAllRefs(rt) ==
  LET ds == Descendants(rt)
  IN  Concat([k \in 1..Len(ds) |-> IF IsRef(ds[k]) THEN <<ds[k]>> ELSE <<>>])

\* ref.get('href', ''), line 87.
GetHref(e) == IF "href" \in DOMAIN e.attrs THEN e.attrs["href"] ELSE <<>>

\* Line 94, for a decoded href that contains the marker (Python's [1] and [0]
\* are the second and the first piece).
ExtractDocType(dh) == Split(Split(dh, Marker)[2], <<"#">>)[1]

\* One pass of the loop body, lines 87-95: what the element appends.
RefEntry(e) ==
  LET dh == Unquote(GetHref(e))
  IN  IF Contains(dh, Marker) THEN <<ExtractDocType(dh)>> ELSE <<>>

\* Lines 78-95: document_types after the loop over refs.
DocumentTypes(rt) ==
  LET refs == FindAllRefs(rt)
  IN  Concat([k \in 1..Len(refs) |-> RefEntry(refs[k])])

(***************************************************************************)
(* The remote state: what the system resolver answers for a host name and  *)
(* what an HTTP GET of a URL meets.                                        *)
(***************************************************************************)
\* An href as SMP servers write it: the document type, then a fragment.
HrefInvoice ==
  <<"/", "s", "e", "r", "v", "i", "c", "e", "s", "/", "b", "u", "s", "d",
    "o", "x", "-", "d", "o", "c", "i", "d", "-", "q", "n", "s", "%", "3",
    "A", "%", "3", "A", "u", "r", "n", "%", "3", "A", "I", "n", "v", "o",
    "i", "c", "e", "-", "2", "%", "3", "A", "%", "3", "A", "I", "n", "v",
    "o", "i", "c", "e", "%", "2", "3", "v", "3">>

\* No fragment, and lowercase escapes.
HrefCreditNote ==
  <<"/", "s", "e", "r", "v", "i", "c", "e", "s", "/", "b", "u", "s", "d",
    "o", "x", "-", "d", "o", "c", "i", "d", "-", "q", "n", "s", "%", "3",
    "a", "%", "3", "a", "u", "r", "n", "%", "3", "A", "C", "r", "e", "d",
    "i", "t", "N", "o", "t", "e", "-", "2", "%", "3", "A", "%", "3", "A",
    "C", "r", "e", "d", "i", "t", "N", "o", "t", "e">>

\* No marker.
HrefNoMarker ==
  <<"/", "s", "e", "r", "v", "i", "c", "e", "s", "/", "o", "t", "h", "e",
    "r", "-", "d", "o", "c", "i", "d", "%", "3", "A", "%", "3", "A", "u",
    "r", "n", "%", "3", "A", "O", "r", "d", "e", "r", "-", "2">>

\* The marker twice.
HrefTwoMarkers ==
  <<"/", "b", "u", "s", "d", "o", "x", "-", "d", "o", "c", "i", "d", "-",
    "q", "n", "s", "%", "3", "A", "%", "3", "A", "u", "r", "n", "%", "3",
    "A", "a", "/", "b", "u", "s", "d", "o", "x", "-", "d", "o", "c", "i",
    "d", "-", "q", "n", "s", "%", "3", "A", "%", "3", "A", "b", "%", "2",
    "3", "c">>

\* A '#' before the marker.
HrefHashFirst ==
  <<"/", "a", "%", "2", "3", "b", "/", "b", "u", "s", "d", "o", "x", "-",
    "d", "o", "c", "i", "d", "-", "q", "n", "s", "%", "3", "A", "%", "3",
    "A", "u", "r", "n", "%", "3", "A", "O", "r", "d", "e", "r", "-", "2",
    "%", "2", "3", "x">>

\* The attributes of an element with an href, and of one without.
Href(hr) == [x \in {"href"} |-> hr]

NoAttrs == [x \in {} |-> <<>>]

\* The elements a reference collection of the model is made of: a reference
\* with each href, one without href, and a ServiceMetadataReference that is
\* in no namespace.
RefChoices ==
  {El(RefTag, Href(hr), <<>>) :
      hr \in {HrefInvoice, HrefCreditNote, HrefNoMarker, HrefTwoMarkers, HrefHashFirst}}
  \cup {El(RefTag, NoAttrs, <<>>),
        El([ns |-> "", name |-> "ServiceMetadataReference"], Href(HrefInvoice), <<>>)}

\* The most references in a collection.
MaxRefs == 2

RECURSIVE SeqsUpTo(_, _)
SeqsUpTo(S, n) ==
  IF n = 0 THEN {<<>>}
  ELSE LET shorter == SeqsUpTo(S, n - 1)
       IN  shorter \cup {Append(q, e) : q \in shorter, e \in S}

\* <ServiceGroup><ParticipantIdentifier/><ServiceMetadataReferenceCollection>
\* refs </ServiceMetadataReferenceCollection></ServiceGroup>
ServiceGroup(refs) ==
  El([ns |-> BusdoxNS, name |-> "ServiceGroup"], NoAttrs,
     << El([ns |-> "http://busdox.org/transport/identifiers/1.0/",
            name |-> "ParticipantIdentifier"], NoAttrs, <<>>),
        El([ns |-> BusdoxNS, name |-> "ServiceMetadataReferenceCollection"],
           NoAttrs, refs) >>)

\* A document whose root element is itself a ServiceMetadataReference, with
\* one more inside it.
RootRefDoc ==
  El(RefTag, Href(HrefInvoice), <<El(RefTag, Href(HrefCreditNote), <<>>)>>)

\* A reference three levels down, inside an extension element.
DeepDoc ==
  El([ns |-> BusdoxNS, name |-> "ServiceGroup"], NoAttrs,
     << El([ns |-> BusdoxNS, name |-> "Extension"], NoAttrs,
           << El([ns |-> "", name |-> "any"], NoAttrs,
                 <<El(RefTag, Href(HrefCreditNote), <<>>)>>) >>),
        El(RefTag, Href(HrefInvoice), <<>>) >>)

Docs ==
  {ServiceGroup(refs) : refs \in SeqsUpTo(RefChoices, MaxRefs)}
    \cup {RootRefDoc, DeepDoc}

\* A response body: whether its bytes decode as UTF-8 (line 72), and what
\* ET.fromstring makes of it (line 73): a parse error, or the root element.
Malformed(dec) == [decodable |-> dec, wellformed |-> FALSE]

Document(dec, rt) == [decodable |-> dec, wellformed |-> TRUE, root |-> rt]

\* The well-formed documents in an encoding other than UTF-8 (ISO-8859-1 or
\* UTF-16, say, with bytes that are no UTF-8) are kept to three.
Bodies ==
  {Document(TRUE, rt) : rt \in Docs}
    \cup {Document(FALSE, rt) : rt \in {ServiceGroup(<<>>), DeepDoc, RootRefDoc}}
    \cup {Malformed(TRUE), Malformed(FALSE)}

\* What urlopen(url) meets: a URLError (no connection), an HTTPError (a
\* status that is no 2xx; HTTPError is a URLError), or a 2xx response.
Responses ==
  {[kind |-> "URLError", status |-> 0], [kind |-> "HTTPError", status |-> 404],
   [kind |-> "HTTPError", status |-> 500]}
    \cup {[kind |-> "ok", status |-> 200, body |-> bd] : bd \in Bodies}

\* What getaddrinfo meets: an address, or a gaierror: the name does not
\* exist (EAI_NONAME), or the resolver could not tell (EAI_AGAIN: timeout,
\* network unreachable, server failure).
DnsOutcomes == {"resolves", "EAI_NONAME", "EAI_AGAIN"}

(***************************************************************************)
(* The program as a state machine.  Each caller runs the flow of main: it  *)
(* calls sml_lookup and, when that returns a host, smp_lookup.  A caller   *)
(* is at a line of the source (pc), with the local variables of the        *)
(* function it is in.                                                      *)
(***************************************************************************)
\* The number of callers.
NumCallers == 2

Callers == 1..NumCallers

VARIABLES
  pc,              \* the line each caller is at: "main105", "sml44", ...
  args,            \* each caller's (icd, identifier, sml_domain)
  hostname,        \* sml_lookup's local, line 45
  smp_hostname,    \* main's local: what sml_lookup returned, line 105
  url,             \* smp_lookup's local, line 66
  xml_data,        \* smp_lookup's local, line 71
  root,            \* smp_lookup's local, line 73
  document_types,  \* smp_lookup's local, line 78, and main's, line 114
  exc,             \* the exception main's try statement caught, line 128
  stdout,          \* sys.stdout: the lines printed, as a set (their order
                   \* across callers is not kept)
  dns,             \* the remote state: host name -> what getaddrinfo meets
  http,            \* the remote state: URL -> what urlopen meets
  dnsQueries,      \* per caller, the host names it has asked getaddrinfo for
  httpRequests,    \* per caller, the URLs it has asked urlopen for
  href,            \* the loop of lines 86-95: the href of the reference
  decoded_href,    \* the loop of lines 86-95: unquote(href), line 90
  parts            \* the loop of lines 86-95: the document type, line 94

\* The variables of the loop body, lines 87-95.
extraction == <<href, decoded_href, parts>>

vars ==
  <<pc, args, hostname, smp_hostname, url, xml_data, root, document_types,
    exc, stdout, dns, http, dnsQueries, httpRequests, extraction>>

\* Python values.
None == [py |-> "None"]
Str(tx) == [py |-> "str", s |-> tx]
Unbound == [py |-> "unbound"]
NoException == [type |-> "none", cause |-> "none"]

\* One frame for all calls, as if the locals were globals of the module.
FrameShared(c) == 1

\* Each call has its own frame of local variables.
Frame(c) == c

\* The remote state, asked.
Getaddrinfo(hn) == IF hn \in DOMAIN dns THEN dns[hn] ELSE "EAI_NONAME"

Urlopen(u) ==
  IF u \in DOMAIN http THEN http[u] ELSE [kind |-> "URLError", status |-> 0]

\* print(...): one more line on the standard output.
WriteLine(c, fn, what) ==
  stdout' = stdout \cup {[by |-> c, in |-> fn, line |-> what]}

\* Line 105: main calls sml_lookup(icd, identifier).
MainCallSml(c) ==
  /\ pc[c] = "main105"
  /\ pc' = [pc EXCEPT ![c] = "sml44"]
  /\ UNCHANGED <<args, hostname, smp_hostname, url, xml_data, root,
                 document_types, exc, stdout, dns, http, dnsQueries,
                 httpRequests, extraction>>

\* Lines 44-45: the hash and the host name.
SmlHash(c) ==
  /\ pc[c] = "sml44"
  /\ hostname' = [hostname EXCEPT ![Frame(c)] =
                    Hostname(args[c].icd, args[c].identifier, args[c].sml_domain)]
  /\ pc' = [pc EXCEPT ![c] = "sml46"]
  /\ UNCHANGED <<args, smp_hostname, url, xml_data, root, document_types, exc,
                 stdout, dns, http, dnsQueries, httpRequests, extraction>>

\* A handler that asks again after a temporary failure.
OnGaierrorRetry(err) == IF err = "EAI_AGAIN" THEN "sml46" ELSE "sml49"

\* The line sml_lookup goes to when getaddrinfo raises socket.gaierror with
\* the given error: the handler of line 48, whatever the error.
OnGaierror(err) == "sml49"

\* Line 46: socket.getaddrinfo(hostname, None).
SmlGetaddrinfo(c) ==
  /\ pc[c] = "sml46"
  /\ dnsQueries' = [dnsQueries EXCEPT ![c] = Append(@, hostname[Frame(c)])]
  /\ pc' = [pc EXCEPT ![c] =
              IF Getaddrinfo(hostname[Frame(c)]) = "resolves" THEN "sml47"
              ELSE OnGaierror(Getaddrinfo(hostname[Frame(c)]))]
  /\ UNCHANGED <<args, hostname, smp_hostname, url, xml_data, root,
                 document_types, exc, stdout, dns, http, httpRequests,
                 extraction>>

\* Line 47: return hostname (to line 105 of main).
SmlReturnHost(c) ==
  /\ pc[c] = "sml47"
  /\ smp_hostname' = [smp_hostname EXCEPT ![c] = Str(hostname[Frame(c)])]
  /\ pc' = [pc EXCEPT ![c] = "main106"]
  /\ UNCHANGED <<args, hostname, url, xml_data, root, document_types, exc,
                 stdout, dns, http, dnsQueries, httpRequests, extraction>>

\* Lines 48-49: except socket.gaierror: return None.
SmlReturnNone(c) ==
  /\ pc[c] = "sml49"
  /\ smp_hostname' = [smp_hostname EXCEPT ![c] = None]
  /\ pc' = [pc EXCEPT ![c] = "main106"]
  /\ UNCHANGED <<args, hostname, url, xml_data, root, document_types, exc,
                 stdout, dns, http, dnsQueries, httpRequests, extraction>>

\* `not smp_hostname`, line 106: None and the empty string are false.
IsFalsy(val) == val = None \/ val = Str(<<>>)

\* Lines 106-110: without a host main prints and returns; with one it prints
\* it and calls smp_lookup(smp_hostname, icd, identifier), line 114.
MainCheck(c) ==
  /\ pc[c] = "main106"
  /\ IF IsFalsy(smp_hostname[c])
     THEN /\ WriteLine(c, "main", "Not a PEPPOL participant")
          /\ pc' = [pc EXCEPT ![c] = "done"]
     ELSE /\ WriteLine(c, "main", "SMP hostname")
          /\ pc' = [pc EXCEPT ![c] = "smp65"]
  /\ UNCHANGED <<args, hostname, smp_hostname, url, xml_data, root,
                 document_types, exc, dns, http, dnsQueries, httpRequests,
                 extraction>>

\* Lines 65-66: the URL, from the parameters smp_hostname, icd, identifier.
SmpBuildUrl(c) ==
  /\ pc[c] = "smp65"
  /\ url' = [url EXCEPT ![Frame(c)] =
               Url(smp_hostname[c].s, args[c].icd, args[c].identifier)]
  /\ pc' = [pc EXCEPT ![c] = "smp70"]
  /\ UNCHANGED <<args, hostname, smp_hostname, xml_data, root, document_types,
                 exc, stdout, dns, http, dnsQueries, httpRequests,
                 extraction>>

\* Line 70: urlopen(url).  An HTTPError or another URLError goes to the
\* handler of line 74.
SmpUrlopen(c) ==
  /\ pc[c] = "smp70"
  /\ httpRequests' = [httpRequests EXCEPT ![c] = Append(@, url[Frame(c)])]
  /\ pc' = [pc EXCEPT ![c] =
              IF Urlopen(url[Frame(c)]).kind = "ok" THEN "smp71" ELSE "smp75"]
  /\ UNCHANGED <<args, hostname, smp_hostname, url, xml_data, root,
                 document_types, exc, stdout, dns, http, dnsQueries,
                 extraction>>

\* Line 71: xml_data = response.read().
SmpRead(c) ==
  /\ pc[c] = "smp71"
  /\ xml_data' = [xml_data EXCEPT ![Frame(c)] = Urlopen(url[Frame(c)]).body]
  /\ pc' = [pc EXCEPT ![c] = "smp72"]
  /\ UNCHANGED <<args, hostname, smp_hostname, url, root, document_types, exc,
                 stdout, dns, http, dnsQueries, httpRequests, extraction>>

\* xml_data.decode(), line 72: bytes that are no UTF-8 raise
\* UnicodeDecodeError.
DecodeRaises(bd) == ~bd.decodable

\* Line 72: print(f"\nSMP Response:\n{xml_data.decode()}\n").  The handler of
\* line 74 takes URLError alone, so a UnicodeDecodeError leaves smp_lookup
\* and reaches main's handler, line 128.
SmpPrintResponse(c) ==
  /\ pc[c] = "smp72"
  /\ IF DecodeRaises(xml_data[Frame(c)])
     THEN /\ exc' = [exc EXCEPT ![c] =
                       [type |-> "UnicodeDecodeError", cause |-> "none"]]
          /\ pc' = [pc EXCEPT ![c] = "main129"]
          /\ UNCHANGED stdout
     ELSE /\ WriteLine(c, "smp_lookup", "SMP Response")
          /\ pc' = [pc EXCEPT ![c] = "smp73"]
          /\ UNCHANGED exc
  /\ UNCHANGED <<args, hostname, smp_hostname, url, xml_data, root,
                 document_types, dns, http, dnsQueries, httpRequests,
                 extraction>>

\* Line 73: root = ET.fromstring(xml_data).  A ParseError is no URLError
\* either: it leaves smp_lookup as it is.
SmpParse(c) ==
  /\ pc[c] = "smp73"
  /\ IF xml_data[Frame(c)].wellformed
     THEN /\ root' = [root EXCEPT ![Frame(c)] = xml_data[Frame(c)].root]
          /\ pc' = [pc EXCEPT ![c] = "smp78"]
          /\ UNCHANGED exc
     ELSE /\ exc' = [exc EXCEPT ![c] = [type |-> "ParseError", cause |-> "none"]]
          /\ pc' = [pc EXCEPT ![c] = "main129"]
          /\ UNCHANGED root
  /\ UNCHANGED <<args, hostname, smp_hostname, url, xml_data, document_types,
                 stdout, dns, http, dnsQueries, httpRequests, extraction>>

\* Lines 74-75: except URLError as e: raise Exception(f"Failed to fetch SMP
\* data: {str(e)}").
SmpRaiseFetch(c) ==
  /\ pc[c] = "smp75"
  /\ exc' = [exc EXCEPT ![c] =
               [type |-> "Exception: Failed to fetch SMP data",
                cause |-> Urlopen(url[Frame(c)]).kind]]
  /\ pc' = [pc EXCEPT ![c] = "main129"]
  /\ UNCHANGED <<args, hostname, smp_hostname, url, xml_data, root,
                 document_types, stdout, dns, http, dnsQueries, httpRequests,
                 extraction>>

\* A list that is not made anew: the one the first caller filled.
KeptList(c) == document_types[1]

\* Line 78: document_types = [].
NewList(c) == <<>>

\* Lines 78-95: the new list, the references of the document and the loop
\* over them.
SmpExtract(c) ==
  /\ pc[c] = "smp78"
  /\ document_types' = [document_types EXCEPT ![Frame(c)] =
                          NewList(c) \o DocumentTypes(root[Frame(c)])]
  /\ pc' = [pc EXCEPT ![c] = "smp97"]
  /\ UNCHANGED <<args, hostname, smp_hostname, url, xml_data, root, exc,
                 stdout, dns, http, dnsQueries, httpRequests, extraction>>

\* Line 97: return document_types (to line 114 of main).
SmpReturn(c) ==
  /\ pc[c] = "smp97"
  /\ pc' = [pc EXCEPT ![c] = "main115"]
  /\ UNCHANGED <<args, hostname, smp_hostname, url, xml_data, root,
                 document_types, exc, stdout, dns, http, dnsQueries,
                 httpRequests, extraction>>

\* Lines 115-127: main prints the document types and the billing support.
MainReport(c) ==
  /\ pc[c] = "main115"
  /\ WriteLine(c, "main", "Supported document identifiers")
  /\ pc' = [pc EXCEPT ![c] = "done"]
  /\ UNCHANGED <<args, hostname, smp_hostname, url, xml_data, root,
                 document_types, exc, dns, http, dnsQueries, httpRequests,
                 extraction>>

\* Lines 128-129: except Exception as e: print(f"Error: {str(e)}").
MainExcept(c) ==
  /\ pc[c] = "main129"
  /\ WriteLine(c, "main", "Error")
  /\ pc' = [pc EXCEPT ![c] = "done"]
  /\ UNCHANGED <<args, hostname, smp_hostname, url, xml_data, root,
                 document_types, exc, dns, http, dnsQueries, httpRequests,
                 extraction>>

Next ==
  \E c \in Callers :
    \/ MainCallSml(c)
    \/ SmlHash(c)
    \/ SmlGetaddrinfo(c)
    \/ SmlReturnHost(c)
    \/ SmlReturnNone(c)
    \/ MainCheck(c)
    \/ SmpBuildUrl(c)
    \/ SmpUrlopen(c)
    \/ SmpRead(c)
    \/ SmpPrintResponse(c)
    \/ SmpParse(c)
    \/ SmpRaiseFetch(c)
    \/ SmpExtract(c)
    \/ SmpReturn(c)
    \/ MainReport(c)
    \/ MainExcept(c)

(***************************************************************************)
(* The initial states.                                                     *)
(***************************************************************************)
\* The locals of a caller that has not run yet.
InitCaller(running) ==
  /\ pc = [c \in Callers |-> IF c \in running THEN "main105" ELSE "off"]
  /\ hostname = [c \in Callers |-> <<>>]
  /\ smp_hostname = [c \in Callers |-> Unbound]
  /\ url = [c \in Callers |-> <<>>]
  /\ xml_data = [c \in Callers |-> Unbound]
  /\ root = [c \in Callers |-> Unbound]
  /\ document_types = [c \in Callers |-> <<>>]
  /\ exc = [c \in Callers |-> NoException]
  /\ stdout = {}
  /\ dnsQueries = [c \in Callers |-> <<>>]
  /\ httpRequests = [c \in Callers |-> <<>>]
  /\ href = <<>>
  /\ decoded_href = <<>>
  /\ parts = <<>>

HostOf(ar) == Hostname(ar.icd, ar.identifier, ar.sml_domain)

UrlOf(ar) == Url(HostOf(ar), ar.icd, ar.identifier)

\* A remote state for the given calls: an answer for each of their host
\* names, and a response for each URL on a host that resolves.
InitRemote(calls, answers, responses) ==
  /\ dns \in [{HostOf(ar) : ar \in calls} -> answers]
  /\ http \in [{UrlOf(ar) : ar \in {br \in calls : dns[HostOf(br)] = "resolves"}}
                 -> responses]

\* One caller, with any arguments, against any remote state.
Init ==
  /\ InitCaller({1})
  /\ args \in {f \in [Callers -> Inputs] : \A c \in Callers \ {1} : f[c] = MainArgs}
  /\ InitRemote({args[1]}, DnsOutcomes, Responses)

Spec == Init /\ [][Next]_vars

(***************************************************************************)
(* Concurrent and repeated calls: any callers, started in any order, so    *)
(* that one may run alone, after another, or interleaved with it.          *)
(***************************************************************************)
ConcInputs == {MainArgs, Arg(OtherIcd, OtherIdentifier, DefaultSmlDomain)}

ConcResponses ==
  {[kind |-> "URLError", status |-> 0],
   [kind |-> "ok", status |-> 200,
    body |-> Document(TRUE, ServiceGroup(<<El(RefTag, Href(HrefInvoice), <<>>)>>))],
   [kind |-> "ok", status |-> 200, body |-> Document(TRUE, DeepDoc)]}

InitConc ==
  /\ \E running \in (SUBSET Callers) \ {{}} :
       /\ InitCaller(running)
       /\ args \in {f \in [Callers -> ConcInputs] :
                      \A c \in Callers \ running : f[c] = MainArgs}
       /\ InitRemote({args[c] : c \in running}, {"resolves", "EAI_NONAME"},
                     ConcResponses)

SpecConc == InitConc /\ [][Next]_vars

(***************************************************************************)
(* The body of the loop of lines 86-95 on one reference, a line at a time. *)
(***************************************************************************)
\* Line 90: decoded_href = unquote(href).
SmpUnquote(c) ==
  /\ pc[c] = "smp90"
  /\ decoded_href' = Unquote(href)
  /\ pc' = [pc EXCEPT ![c] = "smp91"]
  /\ UNCHANGED <<args, hostname, smp_hostname, url, xml_data, root,
                 document_types, exc, stdout, dns, http, dnsQueries,
                 httpRequests, href, parts>>

\* Line 91: if 'busdox-docid-qns::' in decoded_href; without the marker the
\* loop goes on to the next reference, line 86.
SmpTestMarker(c) ==
  /\ pc[c] = "smp91"
  /\ pc' = [pc EXCEPT ![c] =
              IF Contains(decoded_href, Marker) THEN "smp92" ELSE "smp86"]
  /\ UNCHANGED <<args, hostname, smp_hostname, url, xml_data, root,
                 document_types, exc, stdout, dns, http, dnsQueries,
                 httpRequests, extraction>>

\* Line 92: parts = decoded_href.split('busdox-docid-qns::')[1].split('::')[0]
SmpSplitFirst(c) ==
  /\ pc[c] = "smp92"
  /\ parts' = Split(Split(decoded_href, Marker)[2], <<":", ":">>)[1]
  /\ pc' = [pc EXCEPT ![c] = "smp94"]
  /\ UNCHANGED <<args, hostname, smp_hostname, url, xml_data, root,
                 document_types, exc, stdout, dns, http, dnsQueries,
                 httpRequests, href, decoded_href>>

\* Line 94: parts = decoded_href.split('busdox-docid-qns::')[1].split('#')[0]
SmpSplit(c) ==
  /\ pc[c] = "smp94"
  /\ parts' = ExtractDocType(decoded_href)
  /\ pc' = [pc EXCEPT ![c] = "smp95"]
  /\ UNCHANGED <<args, hostname, smp_hostname, url, xml_data, root,
                 document_types, exc, stdout, dns, http, dnsQueries,
                 httpRequests, href, decoded_href>>

\* Line 95: document_types.append(parts).
SmpAppend(c) ==
  /\ pc[c] = "smp95"
  /\ document_types' = [document_types EXCEPT ![Frame(c)] = Append(@, parts)]
  /\ pc' = [pc EXCEPT ![c] = "smp86"]
  /\ UNCHANGED <<args, hostname, smp_hostname, url, xml_data, root, exc,
                 stdout, dns, http, dnsQueries, httpRequests, extraction>>

NextExtract ==
  \E c \in Callers :
    \/ SmpUnquote(c)
    \/ SmpTestMarker(c)
    \/ SmpSplitFirst(c)
    \/ SmpSplit(c)
    \/ SmpAppend(c)

\* The most pieces an href of the extraction is made of.
MaxPieces == 3

\* What the hrefs are made of: the marker, a '#', a "::", and other text.
Pieces == {Marker, <<"#">>, <<":", ":">>, <<"u", "r", "n", ":", "a", "/">>}

Texts == {Concat(q) : q \in SeqsUpTo(Pieces, MaxPieces)}

\* The href attribute of a text: percent-encoded, as SMP servers write it, or
\* as it is.
EncodedHrefs == {Quote(t) : t \in Texts} \cup Texts

\* Caller 1 is in the loop, at line 90, with the href of a reference.
InitExtract ==
  /\ pc = [c \in Callers |-> IF c = 1 THEN "smp90" ELSE "off"]
  /\ args = [c \in Callers |-> MainArgs]
  /\ hostname = [c \in Callers |-> <<>>]
  /\ smp_hostname = [c \in Callers |-> Unbound]
  /\ url = [c \in Callers |-> <<>>]
  /\ xml_data = [c \in Callers |-> Unbound]
  /\ root = [c \in Callers |-> Unbound]
  /\ document_types = [c \in Callers |-> <<>>]
  /\ exc = [c \in Callers |-> NoException]
  /\ stdout = {}
  /\ dns = <<>>
  /\ http = <<>>
  /\ dnsQueries = [c \in Callers |-> <<>>]
  /\ httpRequests = [c \in Callers |-> <<>>]
  /\ href \in EncodedHrefs
  /\ decoded_href = <<>>
  /\ parts = <<>>

SpecExtract == InitExtract /\ [][NextExtract]_vars

(***************************************************************************)
(* What a call has made, read off the state.                               *)
(***************************************************************************)
\* sml_lookup has returned to main.
SmlReturned(c) == smp_hostname[c] # Unbound

\* smp_lookup was called and has ended, with a return or an exception.
SmpEnded(c) ==
  \/ pc[c] \in {"main115", "main129"}
  \/ pc[c] = "done" /\ SmlReturned(c) /\ ~IsFalsy(smp_hostname[c])

\* What the two calls gave main: the value of sml_lookup, and the value or
\* the exception of smp_lookup.
Result(c) ==
  [resolve |-> smp_hostname[c],
   fetch |-> IF IsFalsy(smp_hostname[c]) THEN [py |-> "not called"]
             ELSE IF exc[c] # NoException THEN [py |-> "raised", exception |-> exc[c]]
             ELSE [py |-> "list", items |-> document_types[Frame(c)]]]

\* hashlib.md5(...).hexdigest() of the participant ids of the model, as
\* CPython prints them.
KnownDigest(i, v) ==
  IF <<i, v>> = <<MainIcd, MainIdentifier>>
  THEN <<"e", "2", "5", "8", "d", "e", "9", "d", "b", "e", "1", "f", "3", "4",
         "f", "1", "7", "b", "5", "5", "d", "5", "d", "3", "c", "c", "5", "e",
         "7", "a", "6", "6">>
  ELSE <<"9", "1", "2", "f", "0", "9", "8", "6", "c", "4", "d", "a", "d", "1",
         "c", "7", "1", "0", "7", "4", "7", "7", "3", "6", "3", "a", "e", "2",
         "2", "7", "4", "c">>

\* b-{hex MD5 of "{scheme_id}:{value}"}.iso6523-actorid-upis.{domain}
CandidateHost(ar) ==
  <<"b", "-">> \o KnownDigest(ar.icd, ar.identifier)
    \o <<".", "i", "s", "o", "6", "5", "2", "3", "-", "a", "c", "t", "o", "r",
         "i", "d", "-", "u", "p", "i", "s", ".">>
    \o ar.sml_domain

\* C1: once sml_lookup has returned, what it returned is the candidate host
\* b-{hex MD5 of "icd:identifier"}.iso6523-actorid-upis.{domain} when that
\* name resolves, and None, with nothing raised, when the name does not
\* exist; a host it returns is one that resolved.
C1_ResolveReturnsCandidateOrNone ==
  \A c \in Callers :
    SmlReturned(c) =>
      /\ Getaddrinfo(CandidateHost(args[c])) = "resolves"
           => smp_hostname[c] = Str(CandidateHost(args[c]))
      /\ Getaddrinfo(CandidateHost(args[c])) = "EAI_NONAME"
           => smp_hostname[c] = None /\ exc[c] = NoException
      /\ smp_hostname[c] # None
           => /\ smp_hostname[c].py = "str"
              /\ Getaddrinfo(smp_hostname[c].s) = "resolves"
      /\ dnsQueries[c] = <<CandidateHost(args[c])>>

\* sml_lookup("0192", "921605900") on the production SML, whose name
\* resolves, has returned the host.
C1_Witness ==
  /\ pc[1] = "main106"
  /\ args[1] = MainArgs
  /\ dns[CandidateHost(MainArgs)] = "resolves"
  /\ smp_hostname[1] = Str(CandidateHost(MainArgs))

\* C2: a resolution failure other than name-does-not-exist (EAI_AGAIN: a
\* timeout, an unreachable network, a temporary failure of the resolver) is
\* never returned as None: the caller gets a transient error.
C2_TransientFailureIsNotNotFound ==
  \A c \in Callers :
    SmlReturned(c) /\ Getaddrinfo(hostname[Frame(c)]) = "EAI_AGAIN"
      => smp_hostname[c] # None

\* The text up to and excluding the first '#', or all of it.
UpToHash(tx) ==
  IF Contains(tx, <<"#">>) THEN SubSeq(tx, 1, Find(tx, <<"#">>) - 1) ELSE tx

\* The places of a text where the marker occurs.
MarkerPlaces(tx) == {k \in 1..Len(tx) : OccursAt(tx, Marker, k)}

\* C3: for a decoded href that contains the marker, the document type
\* extracted on line 94 is everything after the marker, up to and excluding
\* the first '#' (or to the end): also when the marker occurs more than once
\* (whichever occurrence is meant) and when a '#' comes before the marker.
C3_DocTypeIsRemainderUpToHash ==
  pc[1] = "smp95" =>
    \E k \in MarkerPlaces(decoded_href) :
      parts = UpToHash(From(decoded_href, k + Len(Marker)))

\* C4: after the loop, document_types has one entry for each
\* ServiceMetadataReference element of the namespace anywhere in the parsed
\* document (the root element included) whose decoded href has the marker,
\* in document order; the others add nothing.
C4_OneEntryPerReferenceAnywhere ==
  \A c \in Callers :
    pc[c] = "smp97" =>
      document_types[Frame(c)] =
        LET every == <<root[Frame(c)]>> \o Descendants(root[Frame(c)])
            named == Concat([k \in 1..Len(every) |->
                               IF every[k].tag = [ns |-> BusdoxNS,
                                                  name |-> "ServiceMetadataReference"]
                               THEN <<every[k]>> ELSE <<>>])
        IN  Concat([k \in 1..Len(named) |-> RefEntry(named[k])])

\* C5: a call of smp_lookup that has failed failed by its cause: with the
\* fetch error, carrying the cause, when the response was no 2xx or there was
\* no response, and with ParseError when the body was malformed XML.
C5_FailureClassifiedByCause ==
  \A c \in Callers :
    SmpEnded(c) =>
      /\ Urlopen(url[Frame(c)]).kind # "ok"
           => exc[c] = [type |-> "Exception: Failed to fetch SMP data",
                        cause |-> Urlopen(url[Frame(c)]).kind]
      /\ Urlopen(url[Frame(c)]).kind = "ok" /\ ~Urlopen(url[Frame(c)]).body.wellformed
           => exc[c].type = "ParseError"

\* C6: on a 2xx response whose body is a well-formed document without any
\* ServiceMetadataReference of the namespace, in whatever encoding,
\* smp_lookup returns the empty list and raises nothing.
C6_NoMatchGivesEmptyList ==
  \A c \in Callers :
    /\ SmpEnded(c)
    /\ Urlopen(url[Frame(c)]).kind = "ok"
    /\ Urlopen(url[Frame(c)]).body.wellformed
    /\ \A k \in 1..Len(Descendants(Urlopen(url[Frame(c)]).body.root)) :
         ~IsRef(Descendants(Urlopen(url[Frame(c)]).body.root)[k])
    /\ ~IsRef(Urlopen(url[Frame(c)]).body.root)
    => exc[c] = NoException /\ document_types[Frame(c)] = <<>>

\* C7: a call of sml_lookup asks the resolver once and a call of smp_lookup
\* opens the URL once: never twice, also after a failure, and once when the
\* call has ended.
C7_OneQueryOneRequest ==
  \A c \in Callers :
    /\ Len(dnsQueries[c]) <= 1
    /\ Len(httpRequests[c]) <= 1
    /\ SmlReturned(c) => Len(dnsQueries[c]) = 1
    /\ SmpEnded(c) => Len(httpRequests[c]) = 1

\* The request met a 404 or a 500: smp_lookup has raised and main has ended,
\* after one query and one request.
C7_Witness ==
  /\ pc[1] = "done"
  /\ exc[1].cause = "HTTPError"
  /\ Len(dnsQueries[1]) = 1
  /\ Len(httpRequests[1]) = 1

\* C8: two calls with the same (icd, identifier, sml_domain), one after or
\* during the other, against the same DNS and HTTP state, give the same
\* host or None and the same list or failure.
C8_SameInputsSameOutputs ==
  \A c1, c2 \in Callers :
    /\ pc[c1] = "done"
    /\ pc[c2] = "done"
    /\ args[c1] = args[c2]
    => Result(c1) = Result(c2)

\* Both callers looked up the same participant and got its document types.
C8_Witness ==
  /\ pc[1] = "done"
  /\ pc[2] = "done"
  /\ args[1] = args[2]
  /\ Result(1).fetch.py = "list"
  /\ Result(1).fetch.items # <<>>
  /\ \E e \in stdout : e.by = 2 /\ e.line = "Supported document identifiers"

\* What one call alone gives on a remote state: the resolver's answer for
\* the host of the arguments, then the response of its URL.
RunAlone(ar) ==
  IF Getaddrinfo(HostOf(ar)) # "resolves"
  THEN [resolve |-> None, fetch |-> [py |-> "not called"]]
  ELSE [resolve |-> Str(HostOf(ar)),
        fetch |->
          LET answer == Urlopen(UrlOf(ar))
          IN  IF answer.kind # "ok"
              THEN [py |-> "raised",
                    exception |-> [type |-> "Exception: Failed to fetch SMP data",
                                   cause |-> answer.kind]]
              ELSE IF ~answer.body.decodable
              THEN [py |-> "raised",
                    exception |-> [type |-> "UnicodeDecodeError", cause |-> "none"]]
              ELSE IF ~answer.body.wellformed
              THEN [py |-> "raised",
                    exception |-> [type |-> "ParseError", cause |-> "none"]]
              ELSE [py |-> "list", items |-> DocumentTypes(answer.body.root)]]

C10_FetchFollowsResolve ==
  \A c \in Callers :
    /\ httpRequests[c] # <<>>
         => /\ SmlReturned(c)
            /\ smp_hostname[c].py = "str"
            /\ httpRequests[c] =
                 << <<"h", "t", "t", "p", ":", "/", "/">> \o smp_hostname[c].s
                      \o <<"/", "i", "s", "o", "6", "5", "2", "3", "-", "a", "c",
                           "t", "o", "r", "i", "d", "-", "u", "p", "i", "s", ":",
                           ":">>
                      \o args[c].icd \o <<"%", "3", "A">> \o args[c].identifier >>
    /\ SmlReturned(c) /\ smp_hostname[c] = None
         => httpRequests[c] = <<>> /\ pc[c] \in {"main106", "done"}
    /\ exc[c] # NoException => pc[c] \in {"main129", "done"}
    /\ exc[c] # NoException /\ pc[c] = "done"
         => /\ [by |-> c, in |-> "main", line |-> "Error"] \in stdout
            /\ Len(dnsQueries[c]) = 1
            /\ Len(httpRequests[c]) = 1

\* The request failed with a 404; main printed the error and is done.
C10_Witness ==
  /\ pc[1] = "done"
  /\ exc[1] = [type |-> "Exception: Failed to fetch SMP data", cause |-> "HTTPError"]
  /\ [by |-> 1, in |-> "main", line |-> "Error"] \in stdout
  /\ httpRequests[1] = <<UrlOf(args[1])>>

=============================================================================
